---- MODULE Spec2Model ----
(***************************************************************************)
(* Record storage layer of the Health Evaluation API (src/api/main.py).   *)
(*                                                                         *)
(* Strings are sequences of code points (Python str), so that lower(),     *)
(* strip(), re.sub, slicing and string comparison are computed as the code *)
(* computes them.  An Optional value is None (the empty tuple) or Some(v)  *)
(* (a one-element tuple); JSON values in a stored document use the same    *)
(* encoding (null is None), and a key missing from a JSON object is a      *)
(* field missing from the record that models the object.                   *)
(***************************************************************************)
EXTENDS Integers, Sequences, FiniteSets, TLC

VARIABLES DATA_DIR, clock, response, history

vars == <<DATA_DIR, clock, response, history>>

(***************************************************************************)
(* Bounds of the model.                                                    *)
(***************************************************************************)
\* The server clock counts half seconds; no write happens after MaxClock.
MaxClock == 3

(***************************************************************************)
(* Optional values and Python truthiness.                                  *)
(***************************************************************************)
None == <<>>

Some(v) == <<v>>

\* Python `x or default` for an Optional[str]: None and "" are falsy.
StrOr(x, default) == IF x = None \/ x = Some(<<>>) THEN default ELSE x[1]

(***************************************************************************)
(* String literals of the source, as code points.                          *)
(***************************************************************************)
\* "unnamed"
STR_unnamed == <<117, 110, 110, 97, 109, 101, 100>>

\* "unknown"
STR_unknown == <<117, 110, 107, 110, 111, 119, 110>>

\* ".json"
STR_json_ext == <<46, 106, 115, 111, 110>>

\* "Unnamed"
STR_Unnamed == <<85, 110, 110, 97, 109, 101, 100>>

\* "_"
STR_underscore == <<95>>

(***************************************************************************)
(* str methods and re.sub, as sanitize_filename uses them.                 *)
(***************************************************************************)
\* str.isspace for the code points of the model's alphabet (ASCII).
IsSpace(c) == c \in {9, 10, 11, 12, 13, 28, 29, 30, 31, 32}

\* str.lower on one code point (ASCII letters).
LowerChar(c) == IF c \in 65..90 THEN c + 32 ELSE c

RECURSIVE str_lower(_)
str_lower(s) ==
    IF s = <<>> THEN <<>> ELSE <<LowerChar(Head(s))>> \o str_lower(Tail(s))

RECURSIVE str_lstrip(_)
str_lstrip(s) ==
    IF s = <<>> THEN <<>>
    ELSE IF IsSpace(Head(s)) THEN str_lstrip(Tail(s)) ELSE s

RECURSIVE str_rstrip(_)
str_rstrip(s) ==
    IF s = <<>> THEN <<>>
    ELSE IF IsSpace(s[Len(s)]) THEN str_rstrip(SubSeq(s, 1, Len(s) - 1)) ELSE s

str_strip(s) == str_rstrip(str_lstrip(s))

\* The character class [a-z0-9\-_] of the first re.sub.
InSafeClass(c) == c \in (97..122) \cup (48..57) \cup {45, 95}

\* re.sub(r'[^a-z0-9\-_]', '-', s)
RECURSIVE re_sub_unsafe(_)
re_sub_unsafe(s) ==
    IF s = <<>> THEN <<>>
    ELSE <<IF InSafeClass(Head(s)) THEN Head(s) ELSE 45>> \o re_sub_unsafe(Tail(s))

\* re.sub(r'-+', '-', s)
RECURSIVE re_sub_hyphens(_)
re_sub_hyphens(s) ==
    IF Len(s) <= 1 THEN s
    ELSE IF s[1] = 45 /\ s[2] = 45 THEN re_sub_hyphens(Tail(s))
    ELSE <<s[1]>> \o re_sub_hyphens(Tail(s))

\* The slice bound of name[:50].
MaxNameLen == 50

\* s[:n]
Slice(s, n) == SubSeq(s, 1, IF Len(s) < n THEN Len(s) ELSE n)

\* A variant with the two substitutions in the other order.
sanitize_filename_collapse_first(name) ==
    Slice(re_sub_unsafe(re_sub_hyphens(str_strip(str_lower(name)))), MaxNameLen)

\* A variant without the final slice.
sanitize_filename_untruncated(name) ==
    re_sub_hyphens(re_sub_unsafe(str_strip(str_lower(name))))

sanitize_filename(name) ==
    Slice(re_sub_hyphens(re_sub_unsafe(str_strip(str_lower(name)))), MaxNameLen)

\* A string of k letters "a".
RECURSIVE Pad(_)
Pad(k) == IF k = 0 THEN <<>> ELSE <<97>> \o Pad(k - 1)

(***************************************************************************)
(* str(int), as the f-string formats the age.                              *)
(***************************************************************************)
RECURSIVE Digits(_)
Digits(n) == IF n < 10 THEN <<48 + n>> ELSE Digits(n \div 10) \o <<48 + (n % 10)>>

IntToStr(n) == IF n < 0 THEN <<45>> \o Digits(0 - n) ELSE Digits(n)

(***************************************************************************)
(* get_eval_filename                                                       *)
(***************************************************************************)
\* A variant that keeps the whole fallback word when sex is missing.
get_eval_filename_whole_word(name, age, sex) ==
    LET name_part == sanitize_filename(StrOr(name, STR_unnamed))
        sex_part  == IF sex = None \/ sex = Some(<<>>)
                     THEN STR_unknown
                     ELSE <<LowerChar(sex[1][1])>>
    IN  name_part \o STR_underscore \o IntToStr(age) \o STR_underscore
            \o sex_part \o STR_json_ext

get_eval_filename(name, age, sex) ==
    LET name_part == sanitize_filename(StrOr(name, STR_unnamed))
        sex_part  == <<LowerChar(StrOr(sex, STR_unknown)[1])>>
    IN  name_part \o STR_underscore \o IntToStr(age) \o STR_underscore
            \o sex_part \o STR_json_ext

(***************************************************************************)
(* datetime.utcnow().isoformat() + "Z".  The model's clock counts half     *)
(* seconds after 2024-01-01T00:00:00, so a reading has microsecond 0 or    *)
(* 500000; isoformat leaves the fraction out when the microsecond is 0.    *)
(***************************************************************************)
\* "2024-01-01T00:00:"
STR_date_prefix ==
    <<50, 48, 50, 52, 45, 48, 49, 45, 48, 49, 84, 48, 48, 58, 48, 48, 58>>

\* "Z"
STR_Z == <<90>>

RECURSIVE ZeroPad(_, _)
ZeroPad(s, width) == IF Len(s) >= width THEN s ELSE ZeroPad(<<48>> \o s, width)

utcnow(t) == [second |-> t \div 2, microsecond |-> (t % 2) * 500000]

isoformat(dt) ==
    STR_date_prefix \o ZeroPad(Digits(dt.second), 2)
        \o (IF dt.microsecond = 0
            THEN <<>>
            ELSE <<46>> \o ZeroPad(Digits(dt.microsecond), 6))

(***************************************************************************)
(* The store directory: a function from the names of its *.json files to   *)
(* their contents.  A content is a parsed JSON document, or the mark of a  *)
(* file that cannot be read or parsed.                                     *)
(***************************************************************************)
Corrupt == [kind |-> "corrupt"]

Json(data) == [kind |-> "json", data |-> data]

NoFiles == [p \in {} |-> Corrupt]

\* open(filepath, "w") followed by json.dump: the file is created or replaced.
WriteKeepingExisting(dir, filepath, data) ==
    IF filepath \in DOMAIN dir
    THEN dir
    ELSE [p \in DOMAIN dir \cup {filepath} |->
             IF p = filepath THEN Json(data) ELSE dir[p]]

WriteFile(dir, filepath, data) ==
    [p \in DOMAIN dir \cup {filepath} |->
        IF p = filepath THEN Json(data) ELSE dir[p]]

\* filepath.unlink()
Unlink(dir, filepath) == [p \in DOMAIN dir \ {filepath} |-> dir[p]]

\* Path.stem of a file the glob "*.json" matched.
Stem(p) ==
    IF Len(p) > Len(STR_json_ext) THEN SubSeq(p, 1, Len(p) - Len(STR_json_ext)) ELSE p

(***************************************************************************)
(* save_evaluation                                                         *)
(***************************************************************************)
\* `not evaluation.person_age`, None only.
AgeIsNone(age) == age = None

\* `not evaluation.person_age`: None and 0 are falsy.
AgeMissing(age) == age = None \/ age = Some(0)

\* A variant that moves the record: it removes the other files that hold
\* the same id before it writes.
save_evaluation_moving(dir, evaluation, t) ==
    IF AgeMissing(evaluation.person_age)
    THEN [dir |-> dir, status |-> 400, body |-> "Age is required"]
    ELSE LET filename == get_eval_filename(evaluation.person_name,
                                           evaluation.person_age[1],
                                           evaluation.person_sex)
             data == [evaluation EXCEPT
                         !.updated_at = isoformat(utcnow(t)) \o STR_Z]
             kept == { p \in DOMAIN dir :
                         ~(/\ dir[p].kind = "json"
                           /\ dir[p].data.id = evaluation.id) }
         IN  [dir    |-> WriteFile([p \in kept |-> dir[p]], filename, data),
              status |-> 200,
              body   |-> [status |-> "saved", filename |-> filename]]

\* A variant that updates the stored document: measurements and created_at
\* of a document already stored under the filename are kept.
save_evaluation_merging(dir, evaluation, t) ==
    IF AgeMissing(evaluation.person_age)
    THEN [dir |-> dir, status |-> 400, body |-> "Age is required"]
    ELSE LET filename == get_eval_filename(evaluation.person_name,
                                           evaluation.person_age[1],
                                           evaluation.person_sex)
             data == [evaluation EXCEPT
                         !.updated_at = isoformat(utcnow(t)) \o STR_Z]
             merged == IF filename \in DOMAIN dir /\ dir[filename].kind = "json"
                       THEN [data EXCEPT
                                !.created_at = dir[filename].data.created_at,
                                !.measurements =
                                    @ @@ dir[filename].data.measurements]
                       ELSE data
         IN  [dir    |-> WriteFile(dir, filename, merged),
              status |-> 200,
              body   |-> [status |-> "saved", filename |-> filename]]

save_evaluation(dir, evaluation, t) ==
    IF AgeMissing(evaluation.person_age)
    THEN [dir |-> dir, status |-> 400, body |-> "Age is required"]
    ELSE LET filename == get_eval_filename(evaluation.person_name,
                                           evaluation.person_age[1],
                                           evaluation.person_sex)
             data == [evaluation EXCEPT
                         !.updated_at = isoformat(utcnow(t)) \o STR_Z]
         IN  [dir    |-> WriteFile(dir, filename, data),
              status |-> 200,
              body   |-> [status |-> "saved", filename |-> filename]]

(***************************************************************************)
(* get_evaluation                                                          *)
(***************************************************************************)
\* A variant that looks the raw filename up without sanitizing it.
get_evaluation_unsanitized(dir, filename) ==
    LET filepath == filename \o STR_json_ext
    IN  IF filepath \notin DOMAIN dir
        THEN [status |-> 404, body |-> "Evaluation not found"]
        ELSE IF dir[filepath].kind = "json"
        THEN [status |-> 200, body |-> dir[filepath].data]
        ELSE [status |-> 500, body |-> "JSONDecodeError"]

get_evaluation(dir, filename) ==
    LET filepath == sanitize_filename(filename) \o STR_json_ext
    IN  IF filepath \notin DOMAIN dir
        THEN [status |-> 404, body |-> "Evaluation not found"]
        ELSE IF dir[filepath].kind = "json"
        THEN [status |-> 200, body |-> dir[filepath].data]
        ELSE [status |-> 500, body |-> "JSONDecodeError"]

(***************************************************************************)
(* delete_evaluation                                                       *)
(***************************************************************************)
\* A variant without the existence check (unlink(missing_ok=True)).
delete_evaluation_unchecked(dir, filename) ==
    LET filepath == sanitize_filename(filename) \o STR_json_ext
    IN  [dir |-> Unlink(dir, filepath), status |-> 200, body |-> "deleted"]

delete_evaluation(dir, filename) ==
    LET filepath == sanitize_filename(filename) \o STR_json_ext
    IN  IF filepath \notin DOMAIN dir
        THEN [dir |-> dir, status |-> 404, body |-> "Evaluation not found"]
        ELSE [dir |-> Unlink(dir, filepath), status |-> 200, body |-> "deleted"]

(***************************************************************************)
(* list_evaluations                                                        *)
(***************************************************************************)
\* Python's str comparison: by code point, a proper prefix is the smaller.
RECURSIVE StrLess(_, _)
StrLess(a, b) ==
    IF b = <<>> THEN FALSE
    ELSE IF a = <<>> THEN TRUE
    ELSE IF Head(a) # Head(b) THEN Head(a) < Head(b)
    ELSE StrLess(Tail(a), Tail(b))

\* data.get(key, default) on a parsed JSON object.
DictGet(data, key, default) == IF key \in DOMAIN data THEN data[key] ELSE default

\* The body of the try block for one file: Some(summary), or None when
\* open, json.load or the EvaluationSummary validation raises.
Summarize(file, content) ==
    IF content.kind # "json" THEN None
    ELSE LET data == content.data
             name == DictGet(data, "person_name", Some(STR_Unnamed))
         IN  IF name = None THEN None
             ELSE Some([filename          |-> Stem(file),
                        name              |-> name[1],
                        age               |-> DictGet(data, "person_age", None),
                        sex               |-> DictGet(data, "person_sex", None),
                        measurement_count |->
                            Cardinality(DOMAIN DictGet(data, "measurements", <<>>)),
                        updated_at        |-> DictGet(data, "updated_at", <<>>)])

\* The for loop over DATA_DIR.glob("*.json"), files in the order the glob
\* yields them.
RECURSIVE Collect(_, _)
Collect(dir, glob) ==
    IF glob = <<>> THEN <<>>
    ELSE LET s == Summarize(Head(glob), dir[Head(glob)])
         IN  s \o Collect(dir, Tail(glob))

\* Where list.sort(key=updated_at, reverse=True) puts x among the already
\* sorted items: after every item whose key is not smaller (the sort is stable).
RECURSIVE InsertDesc(_, _)
InsertDesc(x, sorted) ==
    IF sorted = <<>> THEN <<x>>
    ELSE IF StrLess(Head(sorted).updated_at, x.updated_at)
    THEN <<x>> \o sorted
    ELSE <<Head(sorted)>> \o InsertDesc(x, Tail(sorted))

\* A variant that sorts ascending (reverse=True left out).
RECURSIVE InsertAsc(_, _)
InsertAsc(x, sorted) ==
    IF sorted = <<>> THEN <<x>>
    ELSE IF StrLess(x.updated_at, Head(sorted).updated_at)
    THEN <<x>> \o sorted
    ELSE <<Head(sorted)>> \o InsertAsc(x, Tail(sorted))

RECURSIVE SortAscInto(_, _)
SortAscInto(items, sorted) ==
    IF items = <<>> THEN sorted
    ELSE SortAscInto(Tail(items), InsertAsc(Head(items), sorted))

SortAscending(evaluations) == SortAscInto(evaluations, <<>>)

RECURSIVE SortDescInto(_, _)
SortDescInto(items, sorted) ==
    IF items = <<>> THEN sorted
    ELSE SortDescInto(Tail(items), InsertDesc(Head(items), sorted))

\* evaluations.sort(key=lambda x: x.updated_at, reverse=True)
SortByUpdatedAtDesc(evaluations) == SortDescInto(evaluations, <<>>)

list_evaluations(dir, glob) ==
    [status |-> 200, body |-> SortByUpdatedAtDesc(Collect(dir, glob))]

\* The orders in which the glob may yield the files of the directory.
RECURSIVE GlobOrders(_)
GlobOrders(files) ==
    IF files = {} THEN {<<>>}
    ELSE UNION {{<<f>> \o rest : rest \in GlobOrders(files \ {f})} : f \in files}

(***************************************************************************)
(* Inputs of the model.                                                    *)
(***************************************************************************)
\* "2023-12-31T09:00:00Z", the timestamps the caller sends.
STR_caller_time ==
    <<50, 48, 50, 51, 45, 49, 50, 45, 51, 49, 84, 48, 57, 58, 48, 48, 58, 48, 48, 90>>

\* "2023-11-30T08:00:00Z", the created_at of the record with id "e2".
STR_earlier_time ==
    <<50, 48, 50, 51, 45, 49, 49, 45, 51, 48, 84, 48, 56, 58, 48, 48, 58, 48, 48, 90>>

Evaluation(id, name, age, sex, measurements) ==
    [id           |-> id,
     created_at   |-> IF id = "e2" THEN STR_earlier_time ELSE STR_caller_time,
     updated_at   |-> STR_caller_time,
     person_name  |-> name,
     person_age   |-> age,
     person_sex   |-> sex,
     measurements |-> measurements,
     notes        |-> None]

\* Request bodies of POST /api/evaluations: names "Al", " ", fifty "a" and
\* none, sexes "F", "?" and none, ages 10, 0 and none.
Evaluations ==
    { Evaluation("e1", Some(<<65, 108>>), Some(10), Some(<<70>>), [bp |-> 120]),
      Evaluation("e2", Some(<<65, 108>>), Some(10), Some(<<70>>), <<>>),
      Evaluation("e1", None, Some(10), None, <<>>),
      Evaluation("e2", Some(<<32>>), Some(10), Some(<<70>>), [bp |-> 120]),
      Evaluation("e1", Some(Pad(MaxNameLen)), Some(10), Some(<<70>>), <<>>),
      Evaluation("e2", Some(<<65, 108>>), Some(10), Some(<<63>>), <<>>),
      Evaluation("e1", Some(<<65, 108>>), None, Some(<<70>>), [bp |-> 120]),
      Evaluation("e2", Some(<<65, 108>>), Some(0), Some(<<70>>), <<>>) }

\* Filenames of GET and DELETE /api/evaluations/{filename}: "al_10_f",
\* " Al_10_F", "al_10_f.json", "old-1", "Old.1", "bad".
RawFilenames ==
    { <<97, 108, 95, 49, 48, 95, 102>>,
      <<32, 65, 108, 95, 49, 48, 95, 70>>,
      <<97, 108, 95, 49, 48, 95, 102, 46, 106, 115, 111, 110>>,
      <<111, 108, 100, 45, 49>>,
      <<79, 108, 100, 46, 49>>,
      <<98, 97, 100>> }

\* Files the directory may hold when the server starts (mkdir(exist_ok=True)
\* keeps them): "bad.json", which is not JSON, and "old-1.json", an object
\* without person_name and updated_at.
Preexisting ==
    (<<98, 97, 100, 46, 106, 115, 111, 110>> :> Corrupt)
    @@ (<<111, 108, 100, 45, 49, 46, 106, 115, 111, 110>> :>
           Json([id           |-> "e0",
                 person_age   |-> Some(41),
                 person_sex   |-> Some(<<77>>),
                 measurements |-> [bp |-> 120]]))

(***************************************************************************)
(* The state machine.  response is the outcome of the last request, with   *)
(* the directory as the request found it; history records whether the      *)
(* directory started empty, whether a delete succeeded, and the successful *)
(* saves in order.                                                         *)
(***************************************************************************)
Init ==
    /\ \E files \in SUBSET DOMAIN Preexisting :
           DATA_DIR = [p \in files |-> Preexisting[p]]
    /\ clock = 1
    /\ response = [op |-> "none"]
    /\ history = [empty0 |-> DATA_DIR = NoFiles, deleted |-> FALSE, log |-> <<>>]

Save ==
    \E evaluation \in Evaluations :
        LET out == save_evaluation(DATA_DIR, evaluation, clock + 1)
        IN  /\ out.status = 200 => clock < MaxClock
            /\ DATA_DIR' = out.dir
            /\ clock' = IF out.status = 200 THEN clock + 1 ELSE clock
            /\ response' = [op         |-> "save",
                            evaluation |-> evaluation,
                            status     |-> out.status,
                            body       |-> out.body,
                            before     |-> DATA_DIR]
            /\ history' = IF out.status = 200
                          THEN [history EXCEPT !.log =
                                   Append(@, [evaluation |-> evaluation,
                                              filename   |-> out.body.filename])]
                          ELSE history

Get ==
    \E filename \in RawFilenames :
        LET out == get_evaluation(DATA_DIR, filename)
        IN  /\ response' = [op       |-> "get",
                            filename |-> filename,
                            status   |-> out.status,
                            body     |-> out.body,
                            before   |-> DATA_DIR]
            /\ UNCHANGED <<DATA_DIR, clock, history>>

Delete ==
    \E filename \in RawFilenames :
        LET out == delete_evaluation(DATA_DIR, filename)
        IN  /\ DATA_DIR' = out.dir
            /\ response' = [op       |-> "delete",
                            filename |-> filename,
                            status   |-> out.status,
                            body     |-> out.body,
                            before   |-> DATA_DIR]
            /\ history' = IF out.status = 200
                          THEN [history EXCEPT !.deleted = TRUE]
                          ELSE history
            /\ UNCHANGED clock

List ==
    \E glob \in GlobOrders(DOMAIN DATA_DIR) :
        LET out == list_evaluations(DATA_DIR, glob)
        IN  /\ response' = [op     |-> "list",
                            status |-> out.status,
                            body   |-> out.body,
                            before |-> DATA_DIR]
            /\ UNCHANGED <<DATA_DIR, clock, history>>

Next == Save \/ Get \/ Delete \/ List

Spec == Init /\ [][Next]_vars

(***************************************************************************)
(* get_eval_filename on its own: the derivation applied to every           *)
(* combination of the names None, "", " ", "Al", "Al B", " x-Y.", the ages *)
(* 1, 10, -3, 120 and the sexes None, "", "F", "m", "?".                   *)
(***************************************************************************)
PersonNames ==
    { None, Some(<<>>), Some(<<32>>), Some(<<65, 108>>),
      Some(<<65, 108, 32, 66>>), Some(<<32, 120, 45, 89, 46>>) }

PersonAges == {1, 10, 0 - 3, 120}

PersonSexes == { None, Some(<<>>), Some(<<70>>), Some(<<109>>), Some(<<63>>) }

InitFilename ==
    /\ DATA_DIR = NoFiles
    /\ clock = 1
    /\ response = [op |-> "none"]
    /\ history = [empty0 |-> TRUE, deleted |-> FALSE, log |-> <<>>]

DeriveFilename ==
    /\ \E name \in PersonNames, age \in PersonAges, sex \in PersonSexes :
           response' = [op       |-> "filename",
                        name     |-> name,
                        age      |-> age,
                        sex      |-> sex,
                        filename |-> get_eval_filename(name, age, sex)]
    /\ UNCHANGED <<DATA_DIR, clock, history>>

NextFilename == DeriveFilename

SpecFilename == InitFilename /\ [][NextFilename]_vars

(***************************************************************************)
(* sanitize_filename on its own.  An input is an optional leading blank, a *)
(* run of "a" that is empty or ends within MaxTail characters of the slice *)
(* bound, and a tail of up to MaxTail characters out of "a", "A", " ",     *)
(* "-", "." and "_".                                                       *)
(***************************************************************************)
\* The longest tail of a sanitizer input.
MaxTail == 3

TailChars == {97, 65, 32, 45, 46, 95}

Tails == UNION { [1..k -> TailChars] : k \in 0..MaxTail }

PadLengths == {0} \cup ((MaxNameLen - MaxTail)..MaxNameLen)

SanitizerInputs ==
    { lead \o Pad(k) \o tail :
        lead \in {<<>>, <<32>>}, k \in PadLengths, tail \in Tails }

InitSanitize ==
    /\ DATA_DIR = NoFiles
    /\ clock = 1
    /\ response \in { [op |-> "input", input |-> x] : x \in SanitizerInputs }
    /\ history = [empty0 |-> TRUE, deleted |-> FALSE, log |-> <<>>]

Sanitize ==
    /\ response.op = "input"
    /\ response' = [op     |-> "sanitize",
                    input  |-> response.input,
                    output |-> sanitize_filename(response.input)]
    /\ UNCHANGED <<DATA_DIR, clock, history>>

NextSanitize == Sanitize

SpecSanitize == InitSanitize /\ [][NextSanitize]_vars

(***************************************************************************)
(* json.dump(data, f, indent=2): the text written to the file.  The        *)
(* strings of the model hold no character that JSON escapes.               *)
(***************************************************************************)
\* "null"
STR_null == <<110, 117, 108, 108>>

\* The id strings "e1" and "e2" as text.
IdText(id) == IF id = "e1" THEN <<101, 49>> ELSE <<101, 50>>

JsonString(s) == <<34>> \o s \o <<34>>

JsonOptionalString(v) == IF v = None THEN STR_null ELSE JsonString(v[1])

JsonOptionalInt(v) == IF v = None THEN STR_null ELSE IntToStr(v[1])

\* A dict of measurements, nested one level: "{}" when empty, else one
\* line per key (the model's only key is "bp").
JsonMeasurements(m) ==
    IF DOMAIN m = {}
    THEN <<123, 125>>
    ELSE <<123, 10, 32, 32, 32, 32, 34, 98, 112, 34, 58, 32>>
             \o IntToStr(m.bp) \o <<10, 32, 32, 125>>

\* One member line of the top-level object: two blanks, "key": value.
JsonMember(key, value) == <<32, 32>> \o JsonString(key) \o <<58, 32>> \o value

\* ",\n" between members.
STR_member_sep == <<44, 10>>

JsonDump(data) ==
    <<123, 10>>
        \o JsonMember(<<105, 100>>, JsonString(IdText(data.id)))
        \o STR_member_sep
        \o JsonMember(<<99, 114, 101, 97, 116, 101, 100, 95, 97, 116>>,
                      JsonString(data.created_at))
        \o STR_member_sep
        \o JsonMember(<<117, 112, 100, 97, 116, 101, 100, 95, 97, 116>>,
                      JsonString(data.updated_at))
        \o STR_member_sep
        \o JsonMember(<<112, 101, 114, 115, 111, 110, 95, 110, 97, 109, 101>>,
                      JsonOptionalString(data.person_name))
        \o STR_member_sep
        \o JsonMember(<<112, 101, 114, 115, 111, 110, 95, 97, 103, 101>>,
                      JsonOptionalInt(data.person_age))
        \o STR_member_sep
        \o JsonMember(<<112, 101, 114, 115, 111, 110, 95, 115, 101, 120>>,
                      JsonOptionalString(data.person_sex))
        \o STR_member_sep
        \o JsonMember(<<109, 101, 97, 115, 117, 114, 101, 109, 101, 110, 116, 115>>,
                      JsonMeasurements(data.measurements))
        \o STR_member_sep
        \o JsonMember(<<110, 111, 116, 101, 115>>, JsonOptionalString(data.notes))
        \o <<10, 125>>

\* A file as the bytes it holds.
Bytes(b) == [kind |-> "bytes", bytes |-> b]

\* write(2) of text at offset 0 of a file that holds `old`: the text
\* replaces the first Len(text) bytes, what lies beyond them stays.
WriteAtStart(old, text) ==
    text \o SubSeq(old, Len(text) + 1, Len(old))

(***************************************************************************)
(* Requests in flight.  FastAPI runs the plain `def` handlers in a thread  *)
(* pool, so two requests run concurrently; in the specifications below     *)
(* response[t] is the state of the request thread t serves, and the steps  *)
(* of a handler are its accesses to the file system.  Each thread serves   *)
(* one request.                                                            *)
(***************************************************************************)
Threads == {1, 2}

InitConcurrentSave ==
    /\ DATA_DIR = NoFiles
    /\ clock = 1
    /\ response = [t \in Threads |-> [op |-> "save", pc |-> "begin"]]
    /\ history = [empty0 |-> TRUE, deleted |-> FALSE, log |-> <<>>]

\* Lines 109-121: the age check, the filename and the document with the
\* clock reading.
SaveBegin(t) ==
    /\ response[t].pc = "begin"
    /\ \E evaluation \in Evaluations :
           IF AgeMissing(evaluation.person_age)
           THEN /\ response' = [response EXCEPT ![t] =
                                   [op     |-> "save",
                                    pc     |-> "done",
                                    status |-> 400,
                                    body   |-> "Age is required"]]
                /\ UNCHANGED clock
           ELSE /\ response' = [response EXCEPT ![t] =
                    [op       |-> "save",
                     pc       |-> "open",
                     filename |-> get_eval_filename(evaluation.person_name,
                                                    evaluation.person_age[1],
                                                    evaluation.person_sex),
                     data     |-> [evaluation EXCEPT !.updated_at =
                                      isoformat(utcnow(clock + 1)) \o STR_Z]]]
                /\ clock' = clock + 1
    /\ UNCHANGED <<DATA_DIR, history>>

\* Line 123: open(filepath, "w") creates the file or truncates it.
SaveOpen(t) ==
    /\ response[t].pc = "open"
    /\ DATA_DIR' = [p \in DOMAIN DATA_DIR \cup {response[t].filename} |->
                       IF p = response[t].filename THEN Bytes(<<>>) ELSE DATA_DIR[p]]
    /\ response' = [response EXCEPT ![t].pc = "dump"]
    /\ UNCHANGED <<clock, history>>

\* Line 124 and the end of the with block: the text json.dump produced,
\* held in the file object's buffer, is written at this file object's
\* offset, which is 0, and the file is closed.
SaveDump(t) ==
    /\ response[t].pc = "dump"
    /\ DATA_DIR' = [DATA_DIR EXCEPT ![response[t].filename] =
                       Bytes(WriteAtStart(@.bytes, JsonDump(response[t].data)))]
    /\ response' = [response EXCEPT ![t] =
                       [op       |-> "save",
                        pc       |-> "done",
                        status   |-> 200,
                        filename |-> response[t].filename,
                        data     |-> response[t].data]]
    /\ history' = [history EXCEPT !.log =
                      Append(@, [thread |-> t, filename |-> response[t].filename,
                                 data |-> response[t].data])]
    /\ UNCHANGED clock

NextConcurrentSave ==
    \E t \in Threads : SaveBegin(t) \/ SaveOpen(t) \/ SaveDump(t)

SpecConcurrentSave == InitConcurrentSave /\ [][NextConcurrentSave]_vars

InitConcurrentDelete ==
    /\ \E files \in SUBSET DOMAIN Preexisting :
           DATA_DIR = [p \in files |-> Preexisting[p]]
    /\ clock = 1
    /\ response = [t \in Threads |-> [op |-> "delete", pc |-> "begin"]]
    /\ history = [empty0 |-> DATA_DIR = NoFiles, deleted |-> FALSE, log |-> <<>>]

\* Lines 132-135: the path and the existence check.
DeleteCheck(t) ==
    /\ response[t].pc = "begin"
    /\ \E filename \in RawFilenames :
           LET filepath == sanitize_filename(filename) \o STR_json_ext
           IN  response' = [response EXCEPT ![t] =
                   IF filepath \notin DOMAIN DATA_DIR
                   THEN [op       |-> "delete",
                         pc       |-> "done",
                         filename |-> filename,
                         filepath |-> filepath,
                         status   |-> 404,
                         body     |-> "Evaluation not found"]
                   ELSE [op       |-> "delete",
                         pc       |-> "unlink",
                         filename |-> filename,
                         filepath |-> filepath]]
    /\ UNCHANGED <<DATA_DIR, clock, history>>

\* Line 137: filepath.unlink() raises FileNotFoundError when the file is
\* gone, which no handler catches (status 500).
DeleteUnlink(t) ==
    /\ response[t].pc = "unlink"
    /\ IF response[t].filepath \in DOMAIN DATA_DIR
       THEN /\ DATA_DIR' = Unlink(DATA_DIR, response[t].filepath)
            /\ response' = [response EXCEPT ![t] =
                               [op       |-> "delete",
                                pc       |-> "done",
                                filename |-> response[t].filename,
                                filepath |-> response[t].filepath,
                                status   |-> 200,
                                body     |-> "deleted"]]
            /\ history' = [history EXCEPT !.deleted = TRUE]
       ELSE /\ response' = [response EXCEPT ![t] =
                               [op       |-> "delete",
                                pc       |-> "done",
                                filename |-> response[t].filename,
                                filepath |-> response[t].filepath,
                                status   |-> 500,
                                body     |-> "FileNotFoundError"]]
            /\ UNCHANGED <<DATA_DIR, history>>
    /\ UNCHANGED clock

NextConcurrentDelete ==
    \E t \in Threads : DeleteCheck(t) \/ DeleteUnlink(t)

SpecConcurrentDelete == InitConcurrentDelete /\ [][NextConcurrentDelete]_vars

(***************************************************************************)
(* Properties.                                                             *)
(***************************************************************************)
SaveSucceeded == response.op = "save" /\ response.status = 200

SameTriple(a, b) ==
    /\ a.person_name = b.person_name
    /\ a.person_age = b.person_age
    /\ a.person_sex = b.person_sex

\* The successful saves before the last one in the log that sent the same
\* (person_name, person_age, person_sex) as the last one under another id.
CollidingEarlierSaves ==
    LET n == Len(history.log)
    IN  { i \in 1..(n - 1) :
            /\ SameTriple(history.log[i].evaluation, history.log[n].evaluation)
            /\ history.log[i].evaluation.id # history.log[n].evaluation.id }

\* C1: after two successful saves of records with the same (person_name,
\* person_age, person_sex) and different ids, both were written to one and
\* the same file, and that file holds the second record: its id and every
\* other field of it, with nothing of the first record.
C1_CollisionOverwrite ==
    SaveSucceeded =>
        \A i \in CollidingEarlierSaves :
            LET first  == history.log[i]
                second == history.log[Len(history.log)]
            IN  /\ first.filename = second.filename
                /\ Cardinality({first.filename, second.filename}
                                   \cap DOMAIN DATA_DIR) = 1
                /\ DATA_DIR[second.filename].kind = "json"
                /\ DATA_DIR[second.filename].data.id = second.evaluation.id
                /\ DATA_DIR[second.filename].data.id # first.evaluation.id
                /\ [DATA_DIR[second.filename].data EXCEPT
                       !.updated_at = second.evaluation.updated_at]
                       = second.evaluation

C1_Witness == SaveSucceeded /\ CollidingEarlierSaves # {}

\* C2: a successful save returns the derived filename without its
\* extension, and that returned value, passed unchanged to get, yields the
\* document just written, and passed to delete removes that file.
C2_SaveResultRoundTrips ==
    SaveSucceeded =>
        LET target   == get_eval_filename(response.evaluation.person_name,
                                          response.evaluation.person_age[1],
                                          response.evaluation.person_sex)
            returned == response.body.filename
        IN  /\ returned = Stem(target)
            /\ get_evaluation(DATA_DIR, returned)
                   = [status |-> 200, body |-> DATA_DIR[target].data]
            /\ delete_evaluation(DATA_DIR, returned).status = 200
            /\ delete_evaluation(DATA_DIR, returned).dir = Unlink(DATA_DIR, target)

\* C3: a save whose person_age is absent or 0 fails with the validation
\* error (400) and leaves the directory as it was: same files, same contents.
C3_InvalidAgeNoWrite ==
    (response.op = "save" /\ response.evaluation.person_age \in {None, Some(0)}) =>
        /\ response.status = 400
        /\ DATA_DIR = response.before

C3_Witness ==
    /\ response.op = "save"
    /\ response.evaluation.person_age = Some(0)
    /\ response.status = 400
    /\ DOMAIN DATA_DIR # {}

\* The log's saves went to pairwise distinct filenames.
DistinctSaves ==
    \A i, j \in 1..Len(history.log) :
        i # j => history.log[i].filename # history.log[j].filename

\* C4: on a directory that started empty, with no deletes, list after N
\* successful saves to pairwise distinct derived filenames returns exactly N
\* summaries, one per saved record (none after zero saves), records saved
\* without person_name or person_sex included.
C4_ListCountsSaves ==
    (/\ response.op = "list"
     /\ history.empty0
     /\ ~history.deleted
     /\ DistinctSaves) =>
        /\ response.status = 200
        /\ Len(response.body) = Len(history.log)
        /\ \A i \in 1..Len(history.log) :
               \E j \in 1..Len(response.body) :
                   response.body[j].filename = Stem(history.log[i].filename)

\* C5: what list returns is in descending order of the updated_at strings,
\* and an entry with the empty updated_at (a file without one) comes after
\* every entry with a non-empty updated_at.
C5_ListSortedDescending ==
    response.op = "list" =>
        \A i, j \in 1..Len(response.body) :
            i < j =>
                /\ ~StrLess(response.body[i].updated_at, response.body[j].updated_at)
                /\ response.body[i].updated_at = <<>>
                       => response.body[j].updated_at = <<>>

C5_Witness ==
    /\ response.op = "list"
    /\ Len(response.body) = 3
    /\ StrLess(response.body[2].updated_at, response.body[1].updated_at)
    /\ response.body[2].updated_at # <<>>
    /\ response.body[3].updated_at = <<>>

\* The summaries in a list response that carry the stem of file p.
ListedAs(p) ==
    { j \in 1..Len(response.body) : response.body[j].filename = Stem(p) }

\* C6: list never fails, whatever unreadable or unparsable files the
\* directory holds: it returns a summary for every file that holds a JSON
\* record, and the files that cannot be read or parsed are absent from the
\* result.
C6_ListSkipsOnlyUnreadable ==
    (/\ response.op = "list"
     /\ \E p \in DOMAIN response.before : response.before[p].kind # "json") =>
        /\ response.status = 200
        /\ \A p \in DOMAIN response.before :
               IF response.before[p].kind = "json"
               THEN ListedAs(p) # {}
               ELSE ListedAs(p) = {}

\* The file a raw filename of get or delete names.
PathOf(raw) == sanitize_filename(raw) \o STR_json_ext

\* What C7 and its amended form share: NotFoundError exactly when the file
\* named sanitize(raw) plus the extension is missing, the same outcome for
\* every raw filename with the same sanitized form, and no change to the
\* directory.
GetResolvesSanitized ==
    /\ response.status = 404 <=> PathOf(response.filename) \notin DOMAIN response.before
    /\ \A other \in RawFilenames :
           sanitize_filename(other) = sanitize_filename(response.filename) =>
               get_evaluation(response.before, other)
                   = [status |-> response.status, body |-> response.body]
    /\ DATA_DIR = response.before

\* C7 as stated: get fails with NotFoundError exactly when no file named
\* sanitize(raw) plus the extension exists and otherwise returns that
\* file's parsed document unmodified; raw filenames with the same sanitized
\* form resolve to the same file; get never changes the directory.
C7_GetReturnsDocument ==
    response.op = "get" =>
        /\ GetResolvesSanitized
        /\ PathOf(response.filename) \in DOMAIN response.before =>
               /\ response.status = 200
               /\ response.before[PathOf(response.filename)].kind = "json"
               /\ response.body = response.before[PathOf(response.filename)].data

\* C7 amended: as C7, but the parsed document is returned when the file's
\* content parses as JSON; on a file that exists and does not parse, get
\* fails with the parser's error, which is not NotFoundError.
C7_GetReturnsParsableDocument ==
    response.op = "get" =>
        /\ GetResolvesSanitized
        /\ PathOf(response.filename) \in DOMAIN response.before =>
               IF response.before[PathOf(response.filename)].kind = "json"
               THEN /\ response.status = 200
                    /\ response.body = response.before[PathOf(response.filename)].data
               ELSE response.status = 500

C7_Witness ==
    /\ response.op = "get"
    /\ response.filename # sanitize_filename(response.filename)
    /\ response.status = 200
    /\ response.body.id = "e2"

\* C8: delete of a name whose sanitized form has no file fails with
\* NotFoundError and changes nothing; delete of an existing file removes
\* exactly that file and leaves every other file and its content as it was,
\* after which get and delete of the same name fail with NotFoundError; and
\* a missing file comes into being by a successful save to it only.
C8_DeleteRemovesOneFile ==
    /\ response.op = "delete" =>
           IF PathOf(response.filename) \notin DOMAIN response.before
           THEN /\ response.status = 404
                /\ DATA_DIR = response.before
           ELSE /\ response.status = 200
                /\ DOMAIN DATA_DIR
                       = DOMAIN response.before \ {PathOf(response.filename)}
                /\ \A p \in DOMAIN DATA_DIR : DATA_DIR[p] = response.before[p]
                /\ get_evaluation(DATA_DIR, response.filename).status = 404
                /\ delete_evaluation(DATA_DIR, response.filename).status = 404
    /\ response.op \in {"get", "delete", "list"} =>
           DOMAIN DATA_DIR \subseteq DOMAIN response.before
    /\ response.op = "save" =>
           \A p \in DOMAIN DATA_DIR \ DOMAIN response.before :
               response.status = 200 /\ response.body.filename = p

C8_Witness ==
    /\ response.op = "delete"
    /\ response.status = 200
    /\ response.filename # sanitize_filename(response.filename)
    /\ Cardinality(DOMAIN DATA_DIR) >= 2

\* The last index of code point c in s, 0 when s has none.
LastIndexOf(s, c) ==
    LET at == { i \in 1..Len(s) : s[i] = c }
    IN  IF at = {} THEN 0 ELSE CHOOSE i \in at : \A j \in at : j <= i

\* The parts of a derived filename "{name}_{age}_{sex}.json": the sex
\* indicator follows the last "_", the name precedes the one before it.
SexIndicator(filename) ==
    LET stem == Stem(filename)
    IN  SubSeq(stem, LastIndexOf(stem, 95) + 1, Len(stem))

NamePart(filename) ==
    LET stem == Stem(filename)
        head == SubSeq(stem, 1, LastIndexOf(stem, 95) - 1)
    IN  SubSeq(head, 1, LastIndexOf(head, 95) - 1)

Derived == response.op = "filename"

\* C9 as stated: with person_sex absent the sex indicator of the derived
\* filename is the whole word "unknown"; with person_sex present it is the
\* first character of person_sex, lowercased.
C9_SexIndicatorWholeWord ==
    Derived =>
        /\ response.sex = None => SexIndicator(response.filename) = STR_unknown
        /\ response.sex \notin {None, Some(<<>>)} =>
               SexIndicator(response.filename) = <<LowerChar(response.sex[1][1])>>

\* C9 amended: with person_sex absent (or empty) the sex indicator is "u",
\* the first character of the fallback word "unknown"; with a non-empty
\* person_sex it is the first character of person_sex, lowercased.
C9_SexIndicatorFirstLetter ==
    Derived =>
        /\ response.sex \in {None, Some(<<>>)} =>
               SexIndicator(response.filename) = <<117>>
        /\ response.sex \notin {None, Some(<<>>)} =>
               SexIndicator(response.filename) = <<LowerChar(response.sex[1][1])>>

C9_Witness ==
    /\ Derived
    /\ response.sex = None
    /\ SexIndicator(response.filename) = <<117>>

\* C10: the name is lowercased and trimmed first, and "unnamed" is the name
\* part whenever the name is absent or empty after that (a name of blanks
\* included); otherwise the name part is the sanitized name; the name part
\* of a derived filename is never empty.
C10_NamePartNeverEmpty ==
    Derived =>
        /\ NamePart(response.filename) # <<>>
        /\ IF response.name = None
           THEN NamePart(response.filename) = STR_unnamed
           ELSE IF str_strip(str_lower(response.name[1])) = <<>>
           THEN NamePart(response.filename) = STR_unnamed
           ELSE NamePart(response.filename) = sanitize_filename(response.name[1])

Sanitized == response.op = "sanitize"

\* C11: the sanitizer is idempotent: sanitizing its output again returns
\* the output unchanged, also for inputs cut by the 50-character slice and
\* with blanks or punctuation at the cut.
C11_SanitizeIdempotent ==
    Sanitized => sanitize_filename(response.output) = response.output

C11_Witness ==
    /\ Sanitized
    /\ Len(response.input) > 50
    /\ Len(response.output) = 50
    /\ response.output[50] = 45
    /\ response.input[50] # 45

\* C12: the sanitizer's output has at most 50 characters, each of them a
\* lowercase letter, a digit, "-" or "_".
C12_SanitizeSafeOutput ==
    Sanitized =>
        /\ Len(response.output) <= 50
        /\ \A i \in 1..Len(response.output) :
               response.output[i] \in (97..122) \cup (48..57) \cup {45, 95}

C12_Witness ==
    /\ Sanitized
    /\ Len(response.input) > 50
    /\ Len(response.output) = 50
    /\ \E i \in 1..Len(response.input) : response.input[i] \in {65, 32, 46}

\* The entries of a list response that name a file written by a save.
ListedSaves ==
    { j \in 1..Len(response.body) :
        \E i \in 1..Len(history.log) :
            Stem(history.log[i].filename) = response.body[j].filename }

\* C13: every filename list returns for a record written by save is a
\* fixed point of the sanitizer, so that get of that filename returns that
\* record's file and delete of it removes that file; names of 50 sanitized
\* characters and a person_sex outside [a-z0-9-_] included.
C13_ListedNamesRoundTrip ==
    response.op = "list" =>
        \A j \in ListedSaves :
            LET listed == response.body[j].filename
                file   == listed \o STR_json_ext
            IN  /\ sanitize_filename(listed) = listed
                /\ get_evaluation(DATA_DIR, listed)
                       = [status |-> 200, body |-> DATA_DIR[file].data]
                /\ delete_evaluation(DATA_DIR, listed).status = 200
                /\ delete_evaluation(DATA_DIR, listed).dir = Unlink(DATA_DIR, file)

\* C14: a successful save touches the file at the record's derived
\* filename only: every other file is still there with the content it had,
\* an older file written for the same id under another (name, age, sex)
\* included.
C14_SaveTouchesOnlyTarget ==
    SaveSucceeded =>
        /\ DOMAIN DATA_DIR = DOMAIN response.before \cup {response.body.filename}
        /\ \A p \in DOMAIN response.before \ {response.body.filename} :
               DATA_DIR[p] = response.before[p]

C14_Witness ==
    /\ SaveSucceeded
    /\ \E i \in 1..(Len(history.log) - 1) :
           /\ history.log[i].evaluation.id = response.evaluation.id
           /\ history.log[i].filename # response.body.filename
           /\ history.log[i].filename \in DOMAIN DATA_DIR

\* C15: after a successful save the target file's document is the
\* submitted record in every field but updated_at, which is the server's
\* time of this write and not what the caller sent; nothing of a document
\* stored under that filename before survives.
C15_SaveReplacesDocument ==
    SaveSucceeded =>
        LET stored == DATA_DIR[response.body.filename]
            sent   == response.evaluation
        IN  /\ stored.kind = "json"
            /\ DOMAIN stored.data = DOMAIN sent
            /\ \A k \in DOMAIN sent \ {"updated_at"} : stored.data[k] = sent[k]
            /\ stored.data.updated_at = isoformat(utcnow(clock)) \o STR_Z
            /\ stored.data.updated_at # sent.updated_at

C15_Witness ==
    /\ SaveSucceeded
    /\ response.body.filename \in DOMAIN response.before
    /\ LET old == response.before[response.body.filename].data
       IN  /\ old.created_at # response.evaluation.created_at
           /\ old.measurements # response.evaluation.measurements
           /\ old.updated_at # DATA_DIR[response.body.filename].data.updated_at

\* The position in the log of the last successful save to the file with
\* the given stem.
LastSaveOf(stem) ==
    LET at == { i \in 1..Len(history.log) : Stem(history.log[i].filename) = stem }
    IN  CHOOSE i \in at : \A k \in at : k <= i

\* C18: the saves being made at strictly increasing clock readings, list
\* returns the saved records in the order of their last save, the most
\* recently saved first, whether a reading falls on a whole second or not.
C18_ListMostRecentFirst ==
    response.op = "list" =>
        \A i, j \in ListedSaves :
            i < j => LastSaveOf(response.body[i].filename)
                         > LastSaveOf(response.body[j].filename)


\* The save threads have all finished with a write, to one filename.
SavesFinishedOnOneFile ==
    /\ \A t \in Threads : response[t].pc = "done" /\ response[t].status = 200
    /\ \A t, u \in Threads : response[t].filename = response[u].filename

\* C16: when two saves to the same derived filename run concurrently, with
\* their open-and-truncate and write steps interleaved in any order, the
\* file after both have finished holds exactly the complete document of the
\* save whose write completed last: no mixture of bytes, no truncated
\* document.
C16_LastWriteWins ==
    SavesFinishedOnOneFile =>
        LET last == history.log[Len(history.log)]
        IN  DATA_DIR[last.filename] = Bytes(JsonDump(last.data))

\* Two deletes of one existing record: both threads name the same path,
\* which was a file when the first of them checked.
DeletesOfOneExistingRecord ==
    /\ \A t \in Threads : response[t].pc # "begin"
    /\ \A t, u \in Threads : response[t].filepath = response[u].filepath
    /\ \E t \in Threads : response[t].pc = "unlink" \/ response[t].status # 404

\* C17: when two delete calls for the same existing record run
\* concurrently, each of them ends either with the success acknowledgment
\* or with NotFoundError (404); the gap between the existence check and the
\* removal never makes a delete end with any other failure.
C17_DeleteEndsSuccessOrNotFound ==
    DeletesOfOneExistingRecord =>
        \A t \in Threads :
            response[t].pc = "done" => response[t].status \in {200, 404}

====
